---- MODULE Spec2Model ----
(***************************************************************************)
(* A model of the GameClient class of src/game.js: the WebSocket           *)
(* connection lifecycle with bounded reconnection, the outbound commands   *)
(* produced by key events, the inbound protocol handler that reconciles    *)
(* server messages into the world state, the avatar image cache and the    *)
(* viewport.  Every event handler of the class is one action; the methods  *)
(* of the class are operators from a GameClient record to a GameClient     *)
(* record, composed in the order the code calls them.                      *)
(***************************************************************************)
EXTENDS Integers, Sequences, FiniteSets, TLC

VARIABLES
    worldMap,           \* this.worldMap: null, "image" or "placeholder"
    canvas,             \* this.canvas: [width, height]
    myPlayerId,         \* this.myPlayerId
    players,            \* this.players: player id -> player entry
    avatars,            \* this.avatars: avatar name -> avatar definition
    viewport,           \* this.viewport: [x, y]
    loadedAvatars,      \* this.loadedAvatars: name -> direction -> index -> image
    socks,              \* the WebSocket objects that can still matter; this.ws is the last
    reconnectAttempts,  \* this.reconnectAttempts
    timers,             \* delays of the pending setTimeout callbacks, in creation order
    keysPressed,        \* this.keysPressed: the set of codes mapped to true
    isMoving,           \* this.isMoving
    pendingLoads,       \* Image objects whose src is set and whose onload has not run
    mapLoad,            \* the world.jpg load: "pending" or "done"
    console,            \* diagnostics written by the last event handler
    draws,              \* number of draw() calls made by the last event handler
    loads,              \* image loads issued by the last event handler, in order
    canvasOps,          \* drawing calls made on the canvas by the last event handler
    firstSeen,          \* avatar name -> its definition when it first entered avatars
    thrown,             \* an exception escaped some event handler
    failedAttempts,     \* consecutive connection attempts that failed without opening
    everOpened,         \* some channel has opened since startup
    scheduledSinceOpen, \* reconnect timers created since startup or the last open
    nInbound,           \* inbound frames delivered so far
    received            \* the frame delivered by the last event, NoFrame if none was

vars == <<worldMap, canvas, myPlayerId, players, avatars, viewport, loadedAvatars,
          socks, reconnectAttempts, timers, keysPressed, isMoving, pendingLoads,
          mapLoad, console, draws, loads, canvasOps, firstSeen, thrown,
          failedAttempts, everOpened, scheduledSinceOpen, nInbound, received>>

----------------------------------------------------------------------------
(* Program constants.                                                       *)

null == "null"
maxReconnectAttempts == 5
mapWidth == 2048
mapHeight == 2048
avatarSize == 64
baseDelay == 2000
username == "Tim"

CONNECTING == "CONNECTING"
OPEN == "OPEN"
CLOSING == "CLOSING"
CLOSED == "CLOSED"

(* Bounds of the model.                                                     *)
MaxSent == 3        \* outbound messages kept per channel
MaxInbound == 3     \* inbound frames delivered in one run
MaxLoaded == 1      \* avatar frame loads that complete in one run

----------------------------------------------------------------------------
(* Small helpers for JavaScript objects used as maps.                       *)

EmptyMap == [k \in {} |-> null]
Has(obj, key) == key \in DOMAIN obj
ObjectAssign(target, source) ==
    [k \in DOMAIN target \cup DOMAIN source |->
        IF k \in DOMAIN source THEN source[k] ELSE target[k]]
Put(obj, key, value) == ObjectAssign(obj, [k \in {key} |-> value])
Delete(obj, key) == [k \in DOMAIN obj \ {key} |-> obj[k]]
Max(a, b) == IF a >= b THEN a ELSE b
Min(a, b) == IF a <= b THEN a ELSE b

(* JSON.stringify / JSON.parse: a frame on the wire is text; text that is   *)
(* JSON carries a value, any other text does not parse.                     *)
JSONstringify(value) == [kind |-> "json", value |-> value]
JSONparse(data) ==
    IF data.kind = "json" THEN [ok |-> TRUE, value |-> data.value]
    ELSE [ok |-> FALSE, value |-> [literal |-> "undefined"]]

(* The value of the JSON text "null".                                       *)
JsonNull == [literal |-> "null"]

----------------------------------------------------------------------------
(* The GameClient object together with the browser objects it holds.        *)

this ==
    [worldMap |-> worldMap, canvas |-> canvas, myPlayerId |-> myPlayerId,
     players |-> players, avatars |-> avatars, viewport |-> viewport,
     loadedAvatars |-> loadedAvatars, socks |-> socks,
     reconnectAttempts |-> reconnectAttempts, timers |-> timers,
     keysPressed |-> keysPressed, isMoving |-> isMoving,
     pendingLoads |-> pendingLoads, mapLoad |-> mapLoad,
     console |-> {}, draws |-> 0, loads |-> <<>>, canvasOps |-> {}, exc |-> FALSE]

Commit(g) ==
    /\ worldMap' = g.worldMap
    /\ canvas' = g.canvas
    /\ myPlayerId' = g.myPlayerId
    /\ players' = g.players
    /\ avatars' = g.avatars
    /\ viewport' = g.viewport
    /\ loadedAvatars' = g.loadedAvatars
    /\ socks' = g.socks
    /\ reconnectAttempts' = g.reconnectAttempts
    /\ timers' = g.timers
    /\ keysPressed' = g.keysPressed
    /\ isMoving' = g.isMoving
    /\ pendingLoads' = g.pendingLoads
    /\ mapLoad' = g.mapLoad
    /\ console' = g.console
    /\ draws' = g.draws
    /\ loads' = g.loads
    /\ canvasOps' = g.canvasOps
    /\ firstSeen' =
          ObjectAssign(firstSeen,
                       [n \in DOMAIN g.avatars \ DOMAIN firstSeen |-> g.avatars[n]])
    /\ thrown' = (thrown \/ g.exc)

Log(g, tag) == [g EXCEPT !.console = @ \cup {tag}]

(* this.ws: the last WebSocket constructed, null before the first.          *)
HasWs(g) == g.socks # <<>>
WsIndex(g) == Len(g.socks)
WsReadyState(g) == IF HasWs(g) THEN g.socks[WsIndex(g)].readyState ELSE null
LiveStates == {CONNECTING, OPEN, CLOSING}
IsLive(s) == s.readyState \in LiveStates

----------------------------------------------------------------------------
(* Connection manager.                                                      *)

(* Variant: hands the message to a channel that is still connecting.        *)
sendMessage_queued(g, message) ==
    IF HasWs(g) /\ WsReadyState(g) \in {CONNECTING, OPEN}
    THEN [g EXCEPT !.socks[WsIndex(g)].sent = Append(@, JSONstringify(message))]
    ELSE Log(g, "WebSocket not connected, cannot send message")

sendMessage(g, message) ==
    IF HasWs(g) /\ WsReadyState(g) = OPEN
    THEN [g EXCEPT !.socks[WsIndex(g)].sent = Append(@, JSONstringify(message))]
    ELSE Log(g, "WebSocket not connected, cannot send message")

joinGame(g) == sendMessage(g, [action |-> "join_game", username |-> username])

(* Variant: compares with <= instead of <.                                 *)
attemptReconnect_inclusive(g) ==
    IF g.reconnectAttempts <= maxReconnectAttempts
    THEN LET n == g.reconnectAttempts + 1 IN
         [Log(g, "Attempting to reconnect...")
            EXCEPT !.reconnectAttempts = n,
                   !.timers = Append(@, baseDelay * n)]
    ELSE Log(g, "Max reconnection attempts reached")

attemptReconnect(g) ==
    IF g.reconnectAttempts < maxReconnectAttempts
    THEN LET n == g.reconnectAttempts + 1 IN
         [Log(g, "Attempting to reconnect...")
            EXCEPT !.reconnectAttempts = n,
                   !.timers = Append(@, baseDelay * n)]
    ELSE Log(g, "Max reconnection attempts reached")

(* new WebSocket(url): a channel in state CONNECTING that has sent nothing. *)
(* Closed channels that this.ws no longer names are unreachable and are     *)
(* dropped.                                                                 *)
NewWebSocket == [readyState |-> CONNECTING, sent |-> <<>>]

connectToServer(g, constructed) ==
    IF constructed
    THEN [g EXCEPT !.socks = Append(SelectSeq(@, IsLive), NewWebSocket)]
    ELSE attemptReconnect(Log(g, "Failed to connect to server"))

(* Variant: does not reset reconnectAttempts.                              *)
onopen_noreset(g) == joinGame(Log(g, "Connected to game server"))

(* Variant: does not send the join request.                                *)
onopen_nojoin(g) ==
    [Log(g, "Connected to game server") EXCEPT !.reconnectAttempts = 0]

onopen(g) ==
    joinGame([Log(g, "Connected to game server") EXCEPT !.reconnectAttempts = 0])

(* Variant: forgets the local player id on disconnect.                     *)
onclose_clears(g) ==
    attemptReconnect([Log(g, "Disconnected from game server") EXCEPT !.myPlayerId = null])

onclose(g) == attemptReconnect(Log(g, "Disconnected from game server"))

(* Variant: the error handler starts a reconnection of its own.            *)
onerror_reconnects(g) == attemptReconnect(Log(g, "WebSocket error"))

onerror(g) == Log(g, "WebSocket error")

----------------------------------------------------------------------------
(* Input handling.                                                          *)

(* Variant: collects the held directions in the opposite order.            *)
directions_reversed(g) ==
    (IF "ArrowRight" \in g.keysPressed THEN <<"right">> ELSE <<>>) \o
    (IF "ArrowLeft" \in g.keysPressed THEN <<"left">> ELSE <<>>) \o
    (IF "ArrowDown" \in g.keysPressed THEN <<"down">> ELSE <<>>) \o
    (IF "ArrowUp" \in g.keysPressed THEN <<"up">> ELSE <<>>)

directions(g) ==
    (IF "ArrowUp" \in g.keysPressed THEN <<"up">> ELSE <<>>) \o
    (IF "ArrowDown" \in g.keysPressed THEN <<"down">> ELSE <<>>) \o
    (IF "ArrowLeft" \in g.keysPressed THEN <<"left">> ELSE <<>>) \o
    (IF "ArrowRight" \in g.keysPressed THEN <<"right">> ELSE <<>>)

(* Variant: sends stop whenever no direction is held.                      *)
sendMovementCommand_stateless(g) ==
    IF Len(directions(g)) = 0
    THEN [sendMessage(g, [action |-> "stop"]) EXCEPT !.isMoving = FALSE]
    ELSE [sendMessage(g, [action |-> "move", direction |-> directions(g)[1]])
            EXCEPT !.isMoving = TRUE]

sendMovementCommand(g) ==
    IF Len(directions(g)) = 0
    THEN IF g.isMoving
         THEN [sendMessage(g, [action |-> "stop"]) EXCEPT !.isMoving = FALSE]
         ELSE g
    ELSE [sendMessage(g, [action |-> "move", direction |-> directions(g)[1]])
            EXCEPT !.isMoving = TRUE]

handleKeyDown(g, code) ==
    sendMovementCommand([g EXCEPT !.keysPressed = @ \cup {code}])

handleKeyUp(g, code) ==
    sendMovementCommand([g EXCEPT !.keysPressed = @ \ {code}])

----------------------------------------------------------------------------
(* Asset cache.                                                             *)

CachedDirections == {"north", "south", "east"}

Image(src) == [src |-> src]

(* The loads one avatar definition asks for: one Image per frame source of  *)
(* each cached direction; index counts from 0 as in the code.               *)
FrameLoads(name, avatar) ==
    UNION {{[avatar |-> name, direction |-> d, index |-> i - 1,
             src |-> avatar.frames[d][i]] : i \in 1..Len(avatar.frames[d])}
           : d \in CachedDirections}

(* The same loads in the order the code issues them: north, south, east,    *)
(* and within a direction by index.                                         *)
DirectionOrder == <<"north", "south", "east">>

DirectionLoadSeq(name, avatar, d) ==
    [i \in 1..Len(avatar.frames[d]) |->
        [avatar |-> name, direction |-> d, index |-> i - 1, src |-> avatar.frames[d][i]]]

FrameLoadSeq(name, avatar) ==
    DirectionLoadSeq(name, avatar, DirectionOrder[1])
        \o DirectionLoadSeq(name, avatar, DirectionOrder[2])
        \o DirectionLoadSeq(name, avatar, DirectionOrder[3])

(* Object.keys(this.avatars): the names of the map, here in a fixed order.  *)
KeyOrder == <<"a1", "a2">>
ObjectKeys(obj) == SelectSeq(KeyOrder, LAMBDA n : n \in DOMAIN obj)

RECURSIVE Concat(_)
Concat(seqs) == IF seqs = <<>> THEN <<>> ELSE Head(seqs) \o Concat(Tail(seqs))

(* Variant: requests the frames of every avatar of the map on every call.   *)
loadAvatarImages_noguard(g) ==
    LET names == ObjectKeys(g.avatars)
        issued == Concat([k \in 1..Len(names) |-> FrameLoadSeq(names[k], g.avatars[names[k]])])
    IN [g EXCEPT
          !.loadedAvatars =
              ObjectAssign(@, [n \in {m \in DOMAIN g.avatars : ~Has(g.loadedAvatars, m)} |->
                                  [d \in CachedDirections |-> EmptyMap]]),
          !.pendingLoads = @ \cup {issued[k] : k \in 1..Len(issued)},
          !.loads = @ \o issued]

loadAvatarImages(g) ==
    LET names == ObjectKeys(g.avatars)
        fresh == SelectSeq(names, LAMBDA n : ~Has(g.loadedAvatars, n))
        issued == Concat([k \in 1..Len(fresh) |-> FrameLoadSeq(fresh[k], g.avatars[fresh[k]])])
    IN [g EXCEPT
          !.loadedAvatars =
              ObjectAssign(@, [n \in {fresh[k] : k \in 1..Len(fresh)} |->
                                  [d \in CachedDirections |-> EmptyMap]]),
          !.pendingLoads = @ \cup {issued[k] : k \in 1..Len(issued)},
          !.loads = @ \o issued]

----------------------------------------------------------------------------
(* Viewport controller and renderer.                                        *)

(* Variant: centres on the local player and does not clamp.                 *)
updateViewport_unclamped(g) ==
    IF g.myPlayerId = null \/ ~Has(g.players, g.myPlayerId)
    THEN g
    ELSE LET myPlayer == g.players[g.myPlayerId]
         IN [g EXCEPT !.viewport = [x |-> myPlayer.x - g.canvas.width \div 2,
                                    y |-> myPlayer.y - g.canvas.height \div 2]]

updateViewport(g) ==
    IF g.myPlayerId = null \/ ~Has(g.players, g.myPlayerId)
    THEN g
    ELSE LET myPlayer == g.players[g.myPlayerId]
             centerX == g.canvas.width \div 2
             centerY == g.canvas.height \div 2
         IN [g EXCEPT
               !.viewport =
                   [x |-> Max(0, Min(myPlayer.x - centerX, mapWidth - g.canvas.width)),
                    y |-> Max(0, Min(myPlayer.y - centerY, mapHeight - g.canvas.height))]]

(* player.animationFrame || 0 *)
frameIndex(player) ==
    IF "animationFrame" \in DOMAIN player THEN player.animationFrame ELSE 0

(* The drawing calls of drawPlayer for one player, each tagged with the     *)
(* player it is made for; exc is a TypeError raised on the way.             *)
NoCalls == [ops |-> {}, exc |-> FALSE]
Raises == [ops |-> {}, exc |-> TRUE]

(* The sprite and the label of a player whose frame is at hand.  A west     *)
(* sprite is drawn in the context scaled by (-1, 1).                        *)
PlayerCalls(g, player, frame) ==
    LET screenX == player.x - g.viewport.x
        screenY == player.y - g.viewport.y
        labelY == screenY - avatarSize \div 2 - 5
    IN {[op |-> "drawImage", for |-> player.id, image |-> frame,
         scaleX |-> IF player.facing = "west" THEN -1 ELSE 1,
         dx |-> IF player.facing = "west"
                THEN -screenX - avatarSize \div 2
                ELSE screenX - avatarSize \div 2,
         dy |-> screenY - avatarSize \div 2,
         dw |-> avatarSize, dh |-> avatarSize],
        [op |-> "strokeText", for |-> player.id,
         text |-> player.username, x |-> screenX, y |-> labelY],
        [op |-> "fillText", for |-> player.id,
         text |-> player.username, x |-> screenX, y |-> labelY]}

(* The visibility test of drawPlayer.                                       *)
OffScreen(g, player) ==
    LET screenX == player.x - g.viewport.x
        screenY == player.y - g.viewport.y
    IN \/ screenX < -avatarSize
       \/ screenX > g.canvas.width + avatarSize
       \/ screenY < -avatarSize
       \/ screenY > g.canvas.height + avatarSize

(* Variant: hands the looked-up frame to drawImage without testing it;      *)
(* drawImage raises on a frame that is not there.                           *)
drawPlayer_unguarded(g, player) ==
    IF ~Has(g.avatars, player.avatar) \/ ~Has(g.loadedAvatars, player.avatar)
    THEN NoCalls
    ELSE LET avatar == g.loadedAvatars[player.avatar]
             direction == player.facing
             k == frameIndex(player)
             slot == IF direction = "west" THEN "east" ELSE direction
         IN IF OffScreen(g, player) THEN NoCalls
            ELSE IF ~(Has(avatar, slot) /\ Has(avatar[slot], k)) THEN Raises
            ELSE [ops |-> PlayerCalls(g, player, avatar[slot][k]), exc |-> FALSE]

(* Variant: culls with non-strict comparisons.                              *)
drawPlayer_cullsEdge(g, player) ==
    IF ~Has(g.avatars, player.avatar) \/ ~Has(g.loadedAvatars, player.avatar)
    THEN NoCalls
    ELSE LET avatar == g.loadedAvatars[player.avatar]
             direction == player.facing
             k == frameIndex(player)
             slot == IF direction = "west" THEN "east" ELSE direction
             screenX == player.x - g.viewport.x
             screenY == player.y - g.viewport.y
         IN IF ~(Has(avatar, slot) /\ Has(avatar[slot], k)) THEN NoCalls
            ELSE IF \/ screenX <= -avatarSize
                    \/ screenX >= g.canvas.width + avatarSize
                    \/ screenY <= -avatarSize
                    \/ screenY >= g.canvas.height + avatarSize
            THEN NoCalls
            ELSE [ops |-> PlayerCalls(g, player, avatar[slot][k]), exc |-> FALSE]

(* Variant: looks every facing up in its own slot, west included.           *)
drawPlayer_ownSlot(g, player) ==
    IF ~Has(g.avatars, player.avatar) \/ ~Has(g.loadedAvatars, player.avatar)
    THEN NoCalls
    ELSE LET avatar == g.loadedAvatars[player.avatar]
             direction == player.facing
             k == frameIndex(player)
         IN IF ~(Has(avatar, direction) /\ Has(avatar[direction], k)) THEN NoCalls
            ELSE IF OffScreen(g, player) THEN NoCalls
            ELSE [ops |-> PlayerCalls(g, player, avatar[direction][k]), exc |-> FALSE]

drawPlayer(g, player) ==
    IF ~Has(g.avatars, player.avatar) \/ ~Has(g.loadedAvatars, player.avatar)
    THEN NoCalls
    ELSE LET avatar == g.loadedAvatars[player.avatar]
             direction == player.facing
             k == frameIndex(player)
             \* west reads avatar.east[k], which raises when there is no east
             \* array; the other facings test the array before they index it
             slot == IF direction = "west" THEN "east" ELSE direction
         IN IF direction = "west" /\ ~Has(avatar, "east") THEN Raises
            ELSE IF ~(Has(avatar, slot) /\ Has(avatar[slot], k)) THEN NoCalls
            ELSE IF OffScreen(g, player) THEN NoCalls
            ELSE [ops |-> PlayerCalls(g, player, avatar[slot][k]), exc |-> FALSE]

(* The two calls that paint the background.                                 *)
Background(g) ==
    {[op |-> "clearRect", for |-> "canvas",
      w |-> g.canvas.width, h |-> g.canvas.height],
     [op |-> "drawImage", for |-> "canvas", image |-> [src |-> g.worldMap],
      sx |-> g.viewport.x, sy |-> g.viewport.y,
      w |-> g.canvas.width, h |-> g.canvas.height]}

draw(g) ==
    IF g.worldMap = null
    THEN [g EXCEPT !.draws = @ + 1]
    ELSE LET calls == [id \in DOMAIN g.players |-> drawPlayer(g, g.players[id])]
         IN [Log(g, "Drawing players") EXCEPT
               !.draws = @ + 1,
               !.canvasOps = @ \cup Background(g)
                               \cup UNION {calls[id].ops : id \in DOMAIN g.players},
               !.exc = @ \/ \E id \in DOMAIN g.players : calls[id].exc]

(* Variant: every completion stores its image at index 0 of its direction. *)
frameOnload_firstSlot(g, l) ==
    draw([g EXCEPT
            !.loadedAvatars[l.avatar][l.direction] = Put(@, 0, Image(l.src)),
            !.pendingLoads = @ \ {l}])

(* img.onload of one avatar frame.                                          *)
frameOnload(g, l) ==
    draw([g EXCEPT
            !.loadedAvatars[l.avatar][l.direction] = Put(@, l.index, Image(l.src)),
            !.pendingLoads = @ \ {l}])

----------------------------------------------------------------------------
(* Protocol handler.                                                        *)

(* Variant: merges the maps instead of replacing them.                     *)
joinGameResult_merge(g, message) ==
    IF message.success
    THEN draw(updateViewport(loadAvatarImages(
            [Log(g, "Successfully joined game")
               EXCEPT !.myPlayerId = message.playerId,
                      !.players = ObjectAssign(@, message.players),
                      !.avatars = ObjectAssign(@, message.avatars)])))
    ELSE Log(g, "Failed to join game")

(* Variant: commits the message without testing success.                   *)
joinGameResult_unchecked(g, message) ==
    IF message.success
    THEN draw(updateViewport(loadAvatarImages(
            [Log(g, "Successfully joined game")
               EXCEPT !.myPlayerId = message.playerId,
                      !.players = message.players,
                      !.avatars = message.avatars])))
    ELSE draw([Log(g, "Successfully joined game")
                 EXCEPT !.myPlayerId = null, !.players = EmptyMap, !.avatars = EmptyMap])

joinGameResult(g, message) ==
    IF message.success
    THEN draw(updateViewport(loadAvatarImages(
            [Log(g, "Successfully joined game")
               EXCEPT !.myPlayerId = message.playerId,
                      !.players = message.players,
                      !.avatars = message.avatars])))
    ELSE Log(g, "Failed to join game")

playerJoined(g, message) ==
    draw(loadAvatarImages(
        [g EXCEPT !.players = Put(@, message.player.id, message.player),
                  !.avatars = Put(@, message.avatar.name, message.avatar)]))

(* Variant: replaces the map instead of merging into it.                   *)
playersMoved_replace(g, message) ==
    draw(updateViewport([Log(g, "Players moved") EXCEPT !.players = message.players]))

playersMoved(g, message) ==
    draw(updateViewport(
        [Log(g, "Players moved") EXCEPT !.players = ObjectAssign(@, message.players)]))

(* Variant: keeps the named player and removes the others.                 *)
playerLeft_inverted(g, message) ==
    draw([g EXCEPT !.players =
            [id \in DOMAIN @ \cap {message.playerId} |-> @[id]]])

playerLeft(g, message) ==
    draw([g EXCEPT !.players = Delete(@, message.playerId)])

handleServerMessage(g, message) ==
    IF message = JsonNull
    THEN [g EXCEPT !.exc = TRUE]
    ELSE CASE message.action = "join_game" -> joinGameResult(g, message)
           [] message.action = "player_joined" -> playerJoined(g, message)
           [] message.action = "players_moved" -> playersMoved(g, message)
           [] message.action = "player_left" -> playerLeft(g, message)
           [] OTHER -> Log(g, "Unknown message type")

(* Variant: no try/catch around parse and dispatch.                        *)
onmessage_nocatch(g, data) ==
    LET parsed == JSONparse(data) IN
    IF ~parsed.ok THEN [g EXCEPT !.exc = TRUE] ELSE handleServerMessage(g, parsed.value)

onmessage(g, data) ==
    LET parsed == JSONparse(data) IN
    IF ~parsed.ok
    THEN Log(g, "Error parsing server message")
    ELSE LET h == handleServerMessage(g, parsed.value) IN
         IF h.exc
         THEN Log([h EXCEPT !.exc = FALSE], "Error parsing server message")
         ELSE h

----------------------------------------------------------------------------
(* Inputs: the values the environment (server, browser, user) may supply.   *)

PlayerIds == {"p1", "p2"}
AvatarNames == {"a1", "a2"}
Facings == {"north", "south", "east", "west"}

Player(id, x, y, facing, avatar) ==
    [id |-> id, username |-> id, x |-> x, y |-> y, facing |-> facing, avatar |-> avatar]

(* Two entries per player id: one near the top-left corner of the map, one  *)
(* in its interior.                                                         *)
PlayerSamples(id) ==
    {Player(id, 100, 100, "south", "a1"), Player(id, 1500, 1200, "west", "a2")}

PlayerMaps ==
    UNION {[S -> UNION {PlayerSamples(id) : id \in S}] : S \in SUBSET PlayerIds}

WellFormedPlayers(m) == \A id \in DOMAIN m : m[id].id = id

PlayersSamples == {m \in PlayerMaps : WellFormedPlayers(m)}

Avatar(name) ==
    [name |-> name,
     frames |-> [d \in CachedDirections |-> <<name \o "/" \o d \o "/0.png">>]]

AvatarsSamples == {[n \in S |-> Avatar(n)] : S \in {{"a1"}, {"a1", "a2"}}}

JoinSucceeded ==
    {[action |-> "join_game", success |-> TRUE, playerId |-> id,
      players |-> ps, avatars |-> avs]
        : id \in PlayerIds, ps \in PlayersSamples, avs \in AvatarsSamples}
JoinFailed == {[action |-> "join_game", success |-> FALSE, error |-> "Game is full"]}
PlayerJoined ==
    {[action |-> "player_joined", player |-> pl, avatar |-> Avatar(pl.avatar)]
        : pl \in UNION {PlayerSamples(id) : id \in PlayerIds}}
PlayersMoved ==
    {[action |-> "players_moved", players |-> ps] : ps \in PlayersSamples \ {EmptyMap}}
PlayerLeft == {[action |-> "player_left", playerId |-> id] : id \in PlayerIds}
UnknownAction == {[action |-> "ping"]}

KnownActions == {"join_game", "player_joined", "players_moved", "player_left"}

(* Frames as they arrive on the wire.                                       *)
NoFrame == [kind |-> "none", value |-> [literal |-> "none"]]
Frames(messages) == {JSONstringify(m) : m \in messages}
Unparsable == {[kind |-> "text", value |-> [literal |-> "<html>"]]}
MalformedFrames == Unparsable \cup Frames(UnknownAction \cup {JsonNull})
ProtocolFrames ==
    Frames(JoinSucceeded \cup JoinFailed \cup PlayerJoined \cup PlayersMoved
           \cup PlayerLeft)
WorldFrames == ProtocolFrames \cup MalformedFrames

(* The frames of the connection specification: one join result of each     *)
(* kind and one malformed frame.                                            *)
NetFrames ==
    Frames({[action |-> "join_game", success |-> TRUE, playerId |-> "p1",
             players |-> [id \in {"p1"} |-> Player("p1", 1500, 1200, "west", "a1")],
             avatars |-> [n \in {"a1"} |-> Avatar("a1")]]}
           \cup JoinFailed) \cup Unparsable

(* The frames of the asset specification.  Avatar a1 has two frames per     *)
(* direction and two versions that differ in every frame source; a2 is the  *)
(* one-frame avatar of above.                                               *)
VersionTags == <<"v1", "v2">>
IndexTags == <<"0", "1">>
AvatarVersion(name, v) ==
    [name |-> name,
     frames |-> [d \in CachedDirections |->
                   [i \in 1..2 |-> name \o "/" \o VersionTags[v] \o "/" \o d
                                        \o "/" \o IndexTags[i] \o ".png"]]]
AssetAvatars == {AvatarVersion("a1", 1), AvatarVersion("a1", 2), Avatar("a2")}
AssetFrames ==
    Frames({[action |-> "join_game", success |-> TRUE, playerId |-> "p1",
             players |-> [id \in {"p1"} |-> Player("p1", 100, 100, "south", av.name)],
             avatars |-> [n \in {av.name} |-> av]] : av \in AssetAvatars}
           \cup {[action |-> "player_joined",
                  player |-> Player("p2", 1500, 1200, "west", av.name),
                  avatar |-> av] : av \in AssetAvatars})

(* The inputs of the viewport specification: the local player at points    *)
(* on both sides of each clamping threshold, and surfaces smaller than,     *)
(* equal to and wider than the world.  Surface sizes are even, so that      *)
(* canvas.width / 2 is the integer width \div 2.                            *)
ViewCoords == {0, 300, 400, 1024, 1648, 1748, 2048}
ViewPlayers == {Player("p1", x, y, "south", "a1") : x \in ViewCoords, y \in ViewCoords}
ViewFrames ==
    Frames({[action |-> "join_game", success |-> TRUE, playerId |-> "p1",
             players |-> [id \in {"p1"} |-> pl],
             avatars |-> [n \in {"a1"} |-> Avatar("a1")]] : pl \in ViewPlayers}
           \cup {[action |-> "players_moved", players |-> [id \in {"p1"} |-> pl]]
                    : pl \in ViewPlayers})
ViewSizes ==
    {[width |-> 800, height |-> 600], [width |-> 400, height |-> 300],
     [width |-> 2048, height |-> 2048], [width |-> 2560, height |-> 600]}

(* The inputs of the renderer specification.  The local player stands at   *)
(* (1000, 1000), so the viewport of the 800 x 600 surface is at (600, 700);  *)
(* the other player stands one pixel inside and outside each culling        *)
(* threshold, or at (900, 900) with every facing and animation frame none,  *)
(* 1 or (south) 2, which avatar a1 does not have, or with avatar a2, which  *)
(* no message defines.                                                      *)
RenderLocal == Player("p1", 1000, 1000, "south", "a1")
Animated(player, k) ==
    [f \in DOMAIN player \cup {"animationFrame"} |->
        IF f = "animationFrame" THEN k ELSE player[f]]
RenderOthers ==
    {Player("p2", x, 1000, "south", "a1") : x \in {535, 536, 1464, 1465}}
    \cup {Player("p2", x, 1000, "west", "a1") : x \in {535, 536}}
    \cup {Player("p2", 1000, y, "south", "a1") : y \in {635, 636, 1364, 1365}}
    \cup {Player("p2", 900, 900, f, "a1") : f \in Facings}
    \cup {Animated(Player("p2", 900, 900, f, "a1"), 1) : f \in Facings}
    \cup {Animated(Player("p2", 900, 900, "south", "a1"), 2),
          Player("p2", 900, 900, "south", "a2")}
RenderFrames ==
    Frames({[action |-> "join_game", success |-> TRUE, playerId |-> "p1",
             players |-> [id \in {"p1"} |-> RenderLocal],
             avatars |-> [n \in {"a1"} |-> AvatarVersion("a1", 1)]]}
           \cup {[action |-> "players_moved", players |-> [id \in {"p2"} |-> pl]]
                    : pl \in RenderOthers})

KeyCodes == {"ArrowUp", "ArrowDown", "ArrowLeft", "ArrowRight", "KeyA"}
NetKeys == {"ArrowUp", "ArrowRight", "KeyA"}
CanvasSizes == {[width |-> 800, height |-> 600], [width |-> 400, height |-> 300]}

----------------------------------------------------------------------------
(* The state after the constructor: empty world state, the canvas sized to  *)
(* the window, world.jpg requested, and connectToServer called once.        *)

constructor(size) ==
    [worldMap |-> null, canvas |-> size, myPlayerId |-> null,
     players |-> EmptyMap, avatars |-> EmptyMap, viewport |-> [x |-> 0, y |-> 0],
     loadedAvatars |-> EmptyMap, socks |-> <<>>, reconnectAttempts |-> 0,
     timers |-> <<>>, keysPressed |-> {}, isMoving |-> FALSE, pendingLoads |-> {},
     mapLoad |-> "pending", console |-> {}, draws |-> 0, loads |-> <<>>,
     canvasOps |-> {}, exc |-> FALSE]

Started(g) ==
    /\ worldMap = g.worldMap
    /\ canvas = g.canvas
    /\ myPlayerId = g.myPlayerId
    /\ players = g.players
    /\ avatars = g.avatars
    /\ viewport = g.viewport
    /\ loadedAvatars = g.loadedAvatars
    /\ socks = g.socks
    /\ reconnectAttempts = g.reconnectAttempts
    /\ timers = g.timers
    /\ keysPressed = g.keysPressed
    /\ isMoving = g.isMoving
    /\ pendingLoads = g.pendingLoads
    /\ mapLoad = g.mapLoad
    /\ console = g.console
    /\ draws = g.draws
    /\ loads = g.loads
    /\ canvasOps = g.canvasOps
    /\ firstSeen = EmptyMap
    /\ thrown = g.exc

InitWith(sizes, outcomes) ==
    \E size \in sizes, constructed \in outcomes :
        /\ Started(connectToServer(constructor(size), constructed))
        /\ failedAttempts = (IF constructed THEN 0 ELSE 1)
        /\ everOpened = FALSE
        /\ scheduledSinceOpen = (IF constructed THEN 0 ELSE 1)
        /\ nInbound = 0
        /\ received = NoFrame

----------------------------------------------------------------------------
(* Events.  Each action is one task of the browser's event loop: it runs    *)
(* one handler to completion.                                               *)

(* Channel i opens: readyState becomes OPEN and onopen runs.                *)
WsOpen(i) ==
    /\ socks[i].readyState = CONNECTING
    /\ Commit(onopen([this EXCEPT !.socks[i].readyState = OPEN]))
    /\ failedAttempts' = 0
    /\ everOpened' = TRUE
    /\ scheduledSinceOpen' = 0
    /\ received' = NoFrame
    /\ UNCHANGED nInbound

(* The closing handshake of channel i starts: no handler runs.              *)
WsClosing(i) ==
    /\ socks[i].readyState = OPEN
    /\ Commit([this EXCEPT !.socks[i].readyState = CLOSING])
    /\ received' = NoFrame
    /\ UNCHANGED <<failedAttempts, everOpened, scheduledSinceOpen, nInbound>>

(* Channel i fails before opening: readyState becomes CLOSED, then the      *)
(* error event and the close event fire.                                    *)
WsFail(i) ==
    /\ socks[i].readyState = CONNECTING
    /\ LET g == onclose(onerror([this EXCEPT !.socks[i].readyState = CLOSED])) IN
        /\ Commit(g)
        /\ scheduledSinceOpen' = scheduledSinceOpen + Len(g.timers) - Len(timers)
    /\ failedAttempts' = failedAttempts + 1
    /\ received' = NoFrame
    /\ UNCHANGED <<everOpened, nInbound>>

(* An opened channel i closes, cleanly or after an error event.             *)
WsClose(i, wasClean) ==
    /\ socks[i].readyState \in {OPEN, CLOSING}
    /\ LET g0 == [this EXCEPT !.socks[i].readyState = CLOSED]
           g == onclose(IF wasClean THEN g0 ELSE onerror(g0))
       IN /\ Commit(g)
          /\ scheduledSinceOpen' = scheduledSinceOpen + Len(g.timers) - Len(timers)
    /\ received' = NoFrame
    /\ UNCHANGED <<failedAttempts, everOpened, nInbound>>

(* The k-th pending reconnect timer expires and calls connectToServer; the  *)
(* WebSocket constructor returns a channel or throws.                       *)
TimerFire(k, constructed) ==
    /\ k \in 1..Len(timers)
    /\ LET g0 == [this EXCEPT !.timers = SubSeq(@, 1, k - 1) \o SubSeq(@, k + 1, Len(@))]
           g == connectToServer(g0, constructed)
       IN /\ Commit(g)
          /\ scheduledSinceOpen' = scheduledSinceOpen + Len(g.timers) - Len(g0.timers)
    /\ failedAttempts' = (IF constructed THEN failedAttempts ELSE failedAttempts + 1)
    /\ received' = NoFrame
    /\ UNCHANGED <<everOpened, nInbound>>

(* A frame arrives on the open channel i.                                   *)
WsMessage(i, data) ==
    /\ socks[i].readyState = OPEN
    /\ nInbound < MaxInbound
    /\ Commit(onmessage(this, data))
    /\ nInbound' = nInbound + 1
    /\ received' = data
    /\ UNCHANGED <<failedAttempts, everOpened, scheduledSinceOpen>>

CanSend == WsReadyState(this) = OPEN => Len(socks[Len(socks)].sent) < MaxSent

KeyDown(code) ==
    /\ CanSend
    /\ Commit(handleKeyDown(this, code))
    /\ received' = NoFrame
    /\ UNCHANGED <<failedAttempts, everOpened, scheduledSinceOpen, nInbound>>

KeyUp(code) ==
    /\ CanSend
    /\ Commit(handleKeyUp(this, code))
    /\ received' = NoFrame
    /\ UNCHANGED <<failedAttempts, everOpened, scheduledSinceOpen, nInbound>>

(* The window is resized.  Resize and the two world.jpg events below are   *)
(* taken by the viewport and renderer specifications only.                  *)
Resize(size) ==
    /\ size # canvas
    /\ Commit(draw(updateViewport([this EXCEPT !.canvas = size])))
    /\ received' = NoFrame
    /\ UNCHANGED <<failedAttempts, everOpened, scheduledSinceOpen, nInbound>>

WorldMapOnload ==
    /\ mapLoad = "pending"
    /\ Commit(draw([this EXCEPT !.worldMap = "image", !.mapLoad = "done"]))
    /\ received' = NoFrame
    /\ UNCHANGED <<failedAttempts, everOpened, scheduledSinceOpen, nInbound>>

WorldMapOnerror ==
    /\ mapLoad = "pending"
    /\ Commit(draw([Log(this, "Failed to load world map image")
                      EXCEPT !.worldMap = "placeholder", !.mapLoad = "done"]))
    /\ received' = NoFrame
    /\ UNCHANGED <<failedAttempts, everOpened, scheduledSinceOpen, nInbound>>

(* The cache slots that hold an image, each with the source it came from.   *)
LoadedImages ==
    UNION {UNION {{[avatar |-> n, direction |-> d, index |-> i,
                    src |-> loadedAvatars[n][d][i].src]
                        : i \in DOMAIN loadedAvatars[n][d]}
                  : d \in DOMAIN loadedAvatars[n]}
           : n \in DOMAIN loadedAvatars}

FrameOnload(l) ==
    /\ l \in pendingLoads
    /\ Cardinality(LoadedImages) < MaxLoaded
    /\ Commit(frameOnload(this, l))
    /\ UNCHANGED <<failedAttempts, everOpened, scheduledSinceOpen, nInbound, received>>

----------------------------------------------------------------------------
(* Spec: the connection manager and the input handling, for every outcome   *)
(* of every connection attempt, with a few inbound frames.                  *)

Init == InitWith({[width |-> 800, height |-> 600]}, BOOLEAN)

Next ==
    \/ \E i \in 1..Len(socks) : WsOpen(i)
    \/ \E i \in 1..Len(socks) : WsClosing(i)
    \/ \E i \in 1..Len(socks) : WsFail(i)
    \/ \E i \in 1..Len(socks), wasClean \in BOOLEAN : WsClose(i, wasClean)
    \/ \E k \in 1..Len(timers), constructed \in BOOLEAN : TimerFire(k, constructed)
    \/ \E i \in 1..Len(socks), data \in NetFrames : WsMessage(i, data)
    \/ \E code \in NetKeys : KeyDown(code)
    \/ \E code \in NetKeys : KeyUp(code)

Spec == Init /\ [][Next]_vars

(* SpecWorld: the protocol handler, the asset cache and the viewport, for   *)
(* every inbound frame of the catalogue, on a server that accepts every     *)
(* connection and may close it.                                             *)

InitWorld == InitWith({[width |-> 800, height |-> 600]}, {TRUE})

NextWorld ==
    \/ \E i \in 1..Len(socks) : WsOpen(i)
    \/ \E i \in 1..Len(socks) : WsClose(i, TRUE)
    \/ \E k \in 1..Len(timers) : TimerFire(k, TRUE)
    \/ \E i \in 1..Len(socks), data \in WorldFrames : WsMessage(i, data)
    \/ \E l \in pendingLoads : FrameOnload(l)

SpecWorld == InitWorld /\ [][NextWorld]_vars

----------------------------------------------------------------------------
(* SpecAssets: the asset cache on one channel, with avatars of several      *)
(* frames that later messages define again from other sources.             *)

NextAssets ==
    \/ \E i \in 1..Len(socks) : WsOpen(i)
    \/ \E i \in 1..Len(socks), data \in AssetFrames : WsMessage(i, data)
    \/ \E l \in pendingLoads : FrameOnload(l)

SpecAssets == InitWorld /\ [][NextAssets]_vars

----------------------------------------------------------------------------
(* Properties of the connection manager, checked under Spec.                *)

NoLiveChannel == \A i \in 1..Len(socks) : ~IsLive(socks[i])

(* The client has given up: nothing is connecting or open and no reconnect  *)
(* timer is pending, so connectToServer cannot be called again.             *)
GaveUp == NoLiveChannel /\ timers = <<>>

(* C1 as claimed: counting the initial connectToServer call as an attempt,  *)
(* once exactly maxReconnectAttempts consecutive attempts have failed no    *)
(* further attempt is scheduled (no timer pending, none being made).        *)
C1_BoundCountsInitialAttempt ==
    failedAttempts = maxReconnectAttempts => GaveUp

(* The failed attempts the client tolerates: the initial attempt is not     *)
(* counted by reconnectAttempts, so before any channel has opened the       *)
(* client makes one more attempt than after an open.                        *)
Allowance == maxReconnectAttempts + (IF everOpened THEN 0 ELSE 1)

(* C1 amended: before any channel has opened, no further attempt is         *)
(* scheduled after exactly maxReconnectAttempts + 1 consecutive failed      *)
(* attempts (the initial one and maxReconnectAttempts timer-driven ones);   *)
(* after an open, after exactly maxReconnectAttempts.  Until then a failed  *)
(* attempt always leaves exactly one reconnect timer pending.               *)
C1_ReconnectionBound ==
    /\ failedAttempts <= Allowance
    /\ failedAttempts = Allowance => GaveUp
    /\ (failedAttempts < Allowance /\ NoLiveChannel) => Len(timers) = 1

C1_Witness ==
    /\ ~everOpened
    /\ failedAttempts = maxReconnectAttempts + 1
    /\ GaveUp
    /\ "Max reconnection attempts reached" \in console

(* C2: since startup or the last open at most maxReconnectAttempts          *)
(* reconnect timers are created; the client gives up only after creating    *)
(* all of them; once it has given up, no channel, timer or counter changes  *)
(* again; and whenever a channel is open the counter is 0, whatever it was  *)
(* before the open.                                                         *)
C2_BoundedRetryThenGiveUp ==
    /\ [](scheduledSinceOpen <= maxReconnectAttempts)
    /\ [](GaveUp => scheduledSinceOpen = maxReconnectAttempts)
    /\ []((\E i \in 1..Len(socks) : socks[i].readyState \in {OPEN, CLOSING})
            => reconnectAttempts = 0)
    /\ [][GaveUp => GaveUp' /\ UNCHANGED <<socks, timers, reconnectAttempts>>]_vars

(* The client gave up after an open that itself followed failures: the      *)
(* full allowance was used again.                                           *)
C2_Witness ==
    /\ everOpened
    /\ GaveUp
    /\ scheduledSinceOpen = maxReconnectAttempts
    /\ failedAttempts = maxReconnectAttempts

JoinGameFrame == JSONstringify([action |-> "join_game", username |-> username])

(* C3: on every channel the first message transmitted is join_game, it is   *)
(* transmitted once, a channel that is open has transmitted it, and a       *)
(* channel that has not opened has transmitted nothing.                     *)
C3_JoinFirstAndOnce ==
    \A i \in 1..Len(socks) :
        LET s == socks[i] IN
        /\ s.readyState = CONNECTING => s.sent = <<>>
        /\ s.readyState \in {OPEN, CLOSING} => s.sent # <<>>
        /\ s.sent # <<>> => s.sent[1] = JoinGameFrame
        /\ \A k \in 2..Len(s.sent) : JSONparse(s.sent[k]).value.action # "join_game"

(* An open channel that carries a move after its join_game.                 *)
C3_Witness ==
    /\ scheduledSinceOpen = 0
    /\ failedAttempts = 0
    /\ WsReadyState(this) = OPEN
    /\ Len(socks[Len(socks)].sent) >= 2
    /\ socks[Len(socks)].sent[1] = JoinGameFrame
    /\ JSONparse(socks[Len(socks)].sent[2]).value.action = "move"

KeyEvent == \E code \in NetKeys : KeyDown(code) \/ KeyUp(code)

Opens == \E i \in 1..Len(socks) : socks[i].readyState = CONNECTING /\ WsOpen(i)

(* C4: a key event handled while this.ws is missing, connecting, closing    *)
(* or closed transmits nothing on any channel, raises no error and leaves   *)
(* the world state alone; and the channel that opens next has transmitted   *)
(* its join_game and nothing else, so no dropped command is sent later.     *)
C4_SendWhileDisconnected ==
    /\ [][(WsReadyState(this) # OPEN /\ KeyEvent) =>
            /\ socks' = socks
            /\ ~thrown'
            /\ UNCHANGED <<myPlayerId, players, avatars, viewport, loadedAvatars>>]_vars
    /\ [][Opens => socks'[Len(socks')].sent = <<JoinGameFrame>>]_vars

(* A move was dropped on a closing channel while the world is populated.    *)
C4_Witness ==
    /\ "WebSocket not connected, cannot send message" \in console
    /\ WsReadyState(this) = CLOSING
    /\ isMoving
    /\ myPlayerId # null

----------------------------------------------------------------------------
(* Properties of the protocol handler, checked under SpecWorld.             *)

(* The step delivered a frame; msg is the value it parsed to.                *)
Delivered == nInbound' = nInbound + 1
IsMessage(data) == data.kind = "json" /\ "action" \in DOMAIN data.value
DeliveredAction(action) ==
    Delivered /\ IsMessage(received') /\ received'.value.action = action
ReceivedAction(action) == IsMessage(received) /\ received.value.action = action

(* C5: a join_game message with success = true leaves players equal to the  *)
(* message's players map, avatars equal to the message's avatars map and    *)
(* myPlayerId equal to the message's playerId.                              *)
C5_JoinReplacesWorldState ==
    [][(DeliveredAction("join_game") /\ received'.value.success) =>
          /\ players' = received'.value.players
          /\ avatars' = received'.value.avatars
          /\ myPlayerId' = received'.value.playerId]_vars

(* After a second join: avatar a2 was known before it (its cache entry      *)
(* exists) and the join, which does not carry it, removed it.               *)
C5_Witness ==
    /\ ReceivedAction("join_game") /\ received.value.success
    /\ nInbound >= 2
    /\ Has(loadedAvatars, "a2") /\ ~Has(avatars, "a2")
    /\ players = received.value.players
    /\ "Successfully joined game" \in console

(* C6: a join_game message with success = false changes none of            *)
(* myPlayerId, players, avatars, the cache and the viewport, issues no      *)
(* image load and calls draw not once.                                      *)
C6_JoinRejectionCommitsNothing ==
    [][(DeliveredAction("join_game") /\ ~received'.value.success) =>
          /\ UNCHANGED <<myPlayerId, players, avatars, loadedAvatars, viewport,
                         pendingLoads>>
          /\ loads' = <<>>
          /\ draws' = 0]_vars

(* A rejection received after a successful join populated the state.        *)
C6_Witness ==
    /\ ReceivedAction("join_game") /\ ~received.value.success
    /\ "Failed to join game" \in console
    /\ myPlayerId # null
    /\ DOMAIN players = PlayerIds
    /\ LoadedImages # {}

(* C7: a players_moved message leaves every unmentioned entry as it was,    *)
(* maps every mentioned id to the message's entry, adds and removes no      *)
(* other id, and leaves avatars and myPlayerId unchanged.                   *)
C7_MergeSemantics ==
    [][DeliveredAction("players_moved") =>
          LET moved == received'.value.players IN
          /\ DOMAIN players' = DOMAIN players \cup DOMAIN moved
          /\ \A id \in DOMAIN players \ DOMAIN moved : players'[id] = players[id]
          /\ \A id \in DOMAIN moved : players'[id] = moved[id]
          /\ UNCHANGED <<avatars, myPlayerId>>]_vars

(* A message that mentions p2 alone, applied where p1 and p2 are known and  *)
(* differ.                                                                  *)
C7_Witness ==
    /\ ReceivedAction("players_moved")
    /\ DOMAIN received.value.players = {"p2"}
    /\ DOMAIN players = PlayerIds
    /\ players["p1"].x # players["p2"].x
    /\ myPlayerId = "p1"

WorldOf(g) == <<g.myPlayerId, g.players, g.avatars, g.loadedAvatars, g.viewport>>

(* C8: a player_left message for an id that is not in players changes none  *)
(* of players, avatars, myPlayerId, the cache and the viewport and raises   *)
(* no error; after any player_left the id is absent; and in every state     *)
(* handling a player_left frame twice gives the world state that handling   *)
(* it once gives.                                                           *)
C8_RemovalIdempotence ==
    /\ [][(DeliveredAction("player_left") /\ ~Has(players, received'.value.playerId)) =>
            /\ UNCHANGED <<players, avatars, myPlayerId, loadedAvatars, viewport>>
            /\ ~thrown'
            /\ "Error parsing server message" \notin console']_vars
    /\ [][DeliveredAction("player_left") => ~Has(players', received'.value.playerId)]_vars
    /\ [](\A data \in Frames(PlayerLeft) :
            WorldOf(onmessage(onmessage(this, data), data)) = WorldOf(onmessage(this, data)))

(* The first frame of the session is a player_left: the id is unknown.      *)
C8_Witness ==
    /\ ReceivedAction("player_left")
    /\ nInbound = 1
    /\ players = EmptyMap
    /\ draws = 1
    /\ ~thrown

(* C9: a frame that does not parse, or that parses to a value without a     *)
(* known action, changes none of myPlayerId, players, avatars, the cache    *)
(* and the viewport, transmits nothing and lets no error escape onmessage.  *)
C9_MalformedDiscarded ==
    [][(Delivered /\ (~IsMessage(received') \/ received'.value.action \notin KnownActions)) =>
          /\ UNCHANGED <<myPlayerId, players, avatars, loadedAvatars, viewport,
                         pendingLoads, socks>>
          /\ ~thrown']_vars

(* An unparsable frame received in a populated state.                       *)
C9_Witness ==
    /\ received \in Unparsable
    /\ "Error parsing server message" \in console
    /\ myPlayerId # null
    /\ players # EmptyMap
    /\ ~thrown

(* C10: once myPlayerId is a player id, every step leaves it a player id.   *)
C10_LocalPlayerIdNeverCleared ==
    [][(myPlayerId \in PlayerIds) => (myPlayerId' \in PlayerIds)]_vars

(* The local player was removed by player_left and the channel has closed:  *)
(* myPlayerId is still set.                                                 *)
C10_Witness ==
    /\ myPlayerId = "p1"
    /\ ~Has(players, "p1")
    /\ WsReadyState(this) = CLOSED
    /\ Len(timers) = 1

----------------------------------------------------------------------------
(* SpecViewport: updateViewport applied to the local player's position and  *)
(* the surface size, through the messages that move the local player and    *)
(* through resize.                                                          *)

NextViewport ==
    \/ \E i \in 1..Len(socks) : WsOpen(i)
    \/ \E i \in 1..Len(socks), data \in ViewFrames : WsMessage(i, data)
    \/ \E size \in ViewSizes : Resize(size)

SpecViewport == InitWorld /\ [][NextViewport]_vars

----------------------------------------------------------------------------
(* SpecInput: every key of KeyCodes pressed and released in any order,      *)
(* repeats included, while the channel opens, closes and is replaced.       *)

NextInput ==
    \/ \E i \in 1..Len(socks) : WsOpen(i)
    \/ \E i \in 1..Len(socks) : WsClose(i, TRUE)
    \/ \E k \in 1..Len(timers) : TimerFire(k, TRUE)
    \/ \E code \in KeyCodes : KeyDown(code)
    \/ \E code \in KeyCodes : KeyUp(code)

SpecInput == InitWorld /\ [][NextInput]_vars

----------------------------------------------------------------------------
(* SpecRender: the renderer, with the background image loaded, replaced by  *)
(* the placeholder or still missing, frames loaded one at a time, and the   *)
(* surface resized.                                                         *)

NextRender ==
    \/ \E i \in 1..Len(socks) : WsOpen(i)
    \/ \E i \in 1..Len(socks), data \in RenderFrames : WsMessage(i, data)
    \/ \E l \in pendingLoads : FrameOnload(l)
    \/ \E size \in CanvasSizes : Resize(size)
    \/ WorldMapOnload
    \/ WorldMapOnerror

SpecRender == InitWorld /\ [][NextRender]_vars

----------------------------------------------------------------------------
(* Asset cache claims, checked under SpecAssets.                            *)

LoadsFor(issued, n) == SelectSeq(issued, LAMBDA l : l.avatar = n)
LoadsOf(issued, n, d) == SelectSeq(issued, LAMBDA l : l.avatar = n /\ l.direction = d)

(* C11: the frames of an avatar name are requested by the event that first  *)
(* brings the name into avatars and by no other: that event issues, for     *)
(* each of north, south and east, one load per frame source of the          *)
(* definition, in index order, and no load of any other direction; every    *)
(* other event issues no load for the name, also while loads of the name    *)
(* are still in flight.                                                     *)
C11_IdempotentAssetRequests ==
    [][\A n \in AvatarNames :
          IF Has(avatars', n) /\ ~Has(firstSeen, n)
          THEN /\ \A d \in {"north", "south", "east"} :
                    LoadsOf(loads', n, d) =
                        [i \in 1..Len(avatars'[n].frames[d]) |->
                            [avatar |-> n, direction |-> d, index |-> i - 1,
                             src |-> avatars'[n].frames[d][i]]]
               /\ \A k \in 1..Len(loads') :
                    loads'[k].avatar = n => loads'[k].direction \in {"north", "south", "east"}
          ELSE LoadsFor(loads', n) = <<>>]_vars

(* A message defines avatar a1 again while loads of a1 are in flight and    *)
(* issues no load.                                                          *)
C11_Witness ==
    /\ nInbound >= 2
    /\ ReceivedAction("player_joined")
    /\ received.value.avatar.name = "a1"
    /\ \E l \in pendingLoads : l.avatar = "a1"
    /\ loads = <<>>

----------------------------------------------------------------------------
(* Viewport claims.                                                         *)

LocalPlayerPresent == myPlayerId # null /\ Has(players, myPlayerId)

(* origin is position - surface / 2 clamped into 0..world - surface; the    *)
(* halves are compared doubled.                                             *)
ClampedOrigin(origin, position, surface, world) ==
    /\ origin \in 0..(world - surface)
    /\ (2 * position - surface) \in 0..(2 * (world - surface)) =>
            2 * origin = 2 * position - surface

(* C12: after updateViewport, with the local player present, on each axis   *)
(* whose surface dimension does not exceed the world dimension the          *)
(* viewport origin lies in 0..world - surface and equals position -         *)
(* surface / 2 whenever that value lies in that range; the other axis does  *)
(* not matter.                                                              *)
C12_ViewportClamp ==
    LocalPlayerPresent =>
        /\ mapWidth >= canvas.width =>
              ClampedOrigin(viewport.x, players[myPlayerId].x, canvas.width, mapWidth)
        /\ mapHeight >= canvas.height =>
              ClampedOrigin(viewport.y, players[myPlayerId].y, canvas.height, mapHeight)

(* The surface is wider than the world while its height fits: the vertical  *)
(* origin is clamped at the far edge of the world.                          *)
C12_Witness ==
    /\ LocalPlayerPresent
    /\ canvas.width > mapWidth
    /\ canvas.height < mapHeight
    /\ 2 * players[myPlayerId].y - canvas.height > 2 * (mapHeight - canvas.height)
    /\ viewport.y = mapHeight - canvas.height

----------------------------------------------------------------------------
(* Input claims, checked under SpecInput.                                   *)

ArrowOrder == <<"ArrowUp", "ArrowDown", "ArrowLeft", "ArrowRight">>
ArrowDirection == <<"up", "down", "left", "right">>
Held(keys) == {k \in 1..4 : ArrowOrder[k] \in keys}
FirstHeld(keys) == ArrowDirection[CHOOSE k \in Held(keys) : \A j \in Held(keys) : k <= j]

StopFrame == JSONstringify([action |-> "stop"])
MoveFrame(direction) == JSONstringify([action |-> "move", direction |-> direction])
MoveFrames == {MoveFrame(ArrowDirection[k]) : k \in 1..4}

AnyKeyEvent == \E code \in KeyCodes : KeyDown(code) \/ KeyUp(code)

(* What a key event transmits on this.ws.                                   *)
Transmitted ==
    IF HasWs(this)
    THEN SubSeq(socks'[Len(socks)].sent, Len(socks[Len(socks)].sent) + 1,
                Len(socks'[Len(socks)].sent))
    ELSE <<>>
Dropped == "WebSocket not connected, cannot send message" \in console'

(* C13: a key event issues a stop message exactly when a directional key    *)
(* was held before it and none is held after it: on an open channel that    *)
(* event transmits the one frame stop and every other key event transmits   *)
(* no stop; on a channel that is not open the stop of that event is         *)
(* dropped and no other key event after which no direction is held issues   *)
(* anything.  No other event transmits a stop.                              *)
C13_StopOncePerRelease ==
    /\ [][AnyKeyEvent =>
            LET stopDue == Held(keysPressed) # {} /\ Held(keysPressed') = {} IN
            /\ Len(socks') = Len(socks)
            /\ WsReadyState(this) = OPEN =>
                  IF stopDue THEN Transmitted = <<StopFrame>>
                  ELSE \A k \in 1..Len(Transmitted) : Transmitted[k] # StopFrame
            /\ WsReadyState(this) # OPEN =>
                  /\ socks' = socks
                  /\ Held(keysPressed') = {} => (stopDue <=> Dropped)]_vars
    /\ [][~AnyKeyEvent =>
            \A i \in 1..Len(socks') :
                (socks'[i].sent # <<>> /\ socks'[i].sent[Len(socks'[i].sent)] = StopFrame)
                    => \E j \in 1..Len(socks) : socks[j].sent = socks'[i].sent]_vars

(* The last directional key was released while a non-directional key is     *)
(* still held, and the stop went out on the open channel.                   *)
C13_Witness ==
    /\ WsReadyState(this) = OPEN
    /\ keysPressed = {"KeyA"}
    /\ ~isMoving
    /\ socks[Len(socks)].sent[Len(socks[Len(socks)].sent)] = StopFrame

(* C14: on an open channel a key event that changes the set of held         *)
(* directional keys and leaves some held transmits exactly one frame, a     *)
(* move whose direction is the first held of up, down, left, right; a key   *)
(* event after which none is held transmits no move.                        *)
C14_MoveFirstHeldDirection ==
    [][(AnyKeyEvent /\ WsReadyState(this) = OPEN) =>
          /\ (Held(keysPressed') # Held(keysPressed) /\ Held(keysPressed') # {}) =>
                Transmitted = <<MoveFrame(FirstHeld(keysPressed'))>>
          /\ Held(keysPressed') = {} =>
                \A k \in 1..Len(Transmitted) : Transmitted[k] \notin MoveFrames]_vars

(* Up was released while down and right stay held: the move names down.     *)
C14_Witness ==
    /\ WsReadyState(this) = OPEN
    /\ {"ArrowDown", "ArrowRight"} \subseteq keysPressed
    /\ "ArrowUp" \notin keysPressed
    /\ socks[Len(socks)].sent[Len(socks[Len(socks)].sent)] = MoveFrame("down")

----------------------------------------------------------------------------
(* Renderer claims, checked under SpecRender.  In every handler draw is the *)
(* last call, so canvasOps is what draw painted from the state the step     *)
(* ends in.                                                                 *)

Drew == draws > 0 /\ worldMap # null
CallsFor(id) == {c \in canvasOps : c.for = id}
SpriteCalls(id) == {c \in CallsFor(id) : c.op = "drawImage"}
LabelCalls(id) == {c \in CallsFor(id) : c.op \in {"strokeText", "fillText"}}
ScreenX(id) == players[id].x - viewport.x
ScreenY(id) == players[id].y - viewport.y

(* The animation frame of a player, 0 when the entry has none.              *)
FrameOf(id) ==
    IF "animationFrame" \in DOMAIN players[id] THEN players[id].animationFrame ELSE 0
(* The cache direction that serves a facing.                                *)
ServedBy(facing) == IF facing = "west" THEN "east" ELSE facing

(* The avatar of the player is defined and requested and the frame for its  *)
(* facing and animation frame has finished loading.                         *)
FrameReady(id) ==
    LET a == players[id].avatar
        d == ServedBy(players[id].facing)
    IN /\ Has(avatars, a)
       /\ Has(loadedAvatars, a)
       /\ Has(loadedAvatars[a], d)
       /\ Has(loadedAvatars[a][d], FrameOf(id))

BeyondEdge(id) ==
    \/ ScreenX(id) < -64
    \/ ScreenX(id) > canvas.width + 64
    \/ ScreenY(id) < -64
    \/ ScreenY(id) > canvas.height + 64

(* C15: a redraw makes no sprite and no label call for a player whose       *)
(* screen position is more than avatarSize (64) beyond an edge of the       *)
(* surface, and it makes both for a player at most 64 beyond every edge,    *)
(* the thresholds -64 and dimension + 64 included, whose frame is ready.    *)
C15_Culling ==
    Drew =>
        \A id \in DOMAIN players :
            /\ BeyondEdge(id) => CallsFor(id) = {}
            /\ (~BeyondEdge(id) /\ FrameReady(id)) =>
                  SpriteCalls(id) # {} /\ LabelCalls(id) # {}

(* A player exactly 64 left of the surface, or exactly 64 below it, was      *)
(* drawn.                                                                   *)
C15_Witness ==
    /\ Drew
    /\ \E id \in DOMAIN players :
          /\ ScreenX(id) = -avatarSize \/ ScreenY(id) = canvas.height + avatarSize
          /\ SpriteCalls(id) # {}

(* C16: the sprite of a visible player facing west is the cached east       *)
(* frame at the player's animation frame (0 when it has none), drawn in a   *)
(* context mirrored horizontally so that it covers the 64 pixels centred    *)
(* on the player's screen X; the sprite of any other facing is the frame    *)
(* of that facing, unmirrored, on the same pixels; a visible player whose   *)
(* frame is ready gets exactly one sprite; and no cache entry has a west    *)
(* slot.                                                                    *)
C16_WestMirroring ==
    /\ \A n \in DOMAIN loadedAvatars : "west" \notin DOMAIN loadedAvatars[n]
    /\ Drew =>
          \A id \in DOMAIN players :
              /\ (FrameReady(id) /\ ~BeyondEdge(id)) => Cardinality(SpriteCalls(id)) = 1
              /\ \A c \in SpriteCalls(id) :
                    LET a == players[id].avatar
                        k == FrameOf(id)
                    IN IF players[id].facing = "west"
                       THEN /\ c.image = loadedAvatars[a]["east"][k]
                            /\ c.scaleX = -1
                            /\ -(c.dx + c.dw) = ScreenX(id) - 32
                            /\ c.dw = 64
                       ELSE /\ c.image = loadedAvatars[a][players[id].facing][k]
                            /\ c.scaleX = 1
                            /\ c.dx = ScreenX(id) - 32
                            /\ c.dw = 64

(* A player facing west at animation frame 1 was drawn, mirrored.           *)
C16_Witness ==
    /\ Drew
    /\ \E id \in DOMAIN players :
          /\ players[id].facing = "west"
          /\ FrameOf(id) = 1
          /\ \E c \in SpriteCalls(id) : c.scaleX = -1

(* C17: no handler that redraws raises an error; a redraw without a         *)
(* background image makes no drawing call; a redraw with one paints the     *)
(* background, makes no call for a player whose avatar is not in avatars,   *)
(* was not requested, or whose frame for its facing and animation frame is  *)
(* not loaded, and still draws every other player that is on screen.        *)
C17_FailSoftRendering ==
    /\ ~thrown
    /\ "Error parsing server message" \notin console
    /\ worldMap = null => canvasOps = {}
    /\ Drew =>
          /\ \E c \in CallsFor("canvas") : c.op = "drawImage" /\ c.image.src = worldMap
          /\ \A id \in DOMAIN players :
                IF FrameReady(id)
                THEN ~BeyondEdge(id) => (SpriteCalls(id) # {} /\ LabelCalls(id) # {})
                ELSE CallsFor(id) = {}

(* The local player was drawn next to a player, on screen, whose avatar no  *)
(* message has defined.                                                     *)
C17_Witness ==
    /\ Drew
    /\ \E id, other \in DOMAIN players :
          /\ SpriteCalls(id) # {}
          /\ ~Has(avatars, players[other].avatar)
          /\ ~BeyondEdge(other)
          /\ CallsFor(other) = {}

----------------------------------------------------------------------------
(* Viewport at redraw, checked under SpecWorld.                             *)

(* position - surface / 2 clamped into 0..world - surface.                  *)
CentredOrigin(position, surface, world) ==
    LET centred == position - surface \div 2
        last == world - surface
    IN IF centred < 0 THEN 0 ELSE IF centred > last THEN last ELSE centred

(* C18: whenever a handler has run draw and the local player is in          *)
(* players, the viewport is the clamped centred origin of the local         *)
(* player's position on the current surface.                                *)
C18_ViewportConsistentAtRedraw ==
    (draws > 0 /\ LocalPlayerPresent) =>
        /\ viewport.x = CentredOrigin(players[myPlayerId].x, canvas.width, mapWidth)
        /\ viewport.y = CentredOrigin(players[myPlayerId].y, canvas.height, mapHeight)

----------------------------------------------------------------------------
(* The reconnection chain, checked under Spec.                              *)

Channels(states) == {i \in 1..Len(socks) : socks[i].readyState \in states}

(* C19: at most one reconnect timer is pending, at most one channel is      *)
(* connecting or open, no timer is pending while a channel is connecting    *)
(* or open, and reconnectAttempts lies in 0..maxReconnectAttempts.          *)
C19_SingleReconnectionChain ==
    /\ Len(timers) <= 1
    /\ Cardinality(Channels({CONNECTING, OPEN})) <= 1
    /\ Len(timers) = 1 => Channels({CONNECTING, OPEN}) = {}
    /\ reconnectAttempts \in 0..5

(* A channel failed with an error event and then closed after an earlier    *)
(* channel had been open: one timer, the last of the chain, is pending.     *)
C19_Witness ==
    /\ everOpened
    /\ failedAttempts > 0
    /\ Len(timers) = 1
    /\ reconnectAttempts = maxReconnectAttempts
    /\ Channels({CONNECTING, OPEN, CLOSING}) = {}

----------------------------------------------------------------------------
(* Cache coherence, checked under SpecAssets.                               *)

(* The source that definition holds for the slot of l, if it has one.       *)
HoldsSource(definitions, l) ==
    /\ Has(definitions, l.avatar)
    /\ (l.index + 1) \in DOMAIN definitions[l.avatar].frames[l.direction]
SourceIn(definitions, l) == definitions[l.avatar].frames[l.direction][l.index + 1]

Completes(l) == l \in pendingLoads /\ pendingLoads' = pendingLoads \ {l}

====
